---- MODULE Spec2Model ----
(***************************************************************************)
(* Motiontography KB-only FAQ bot: the chat handler of the three           *)
(* deployment variants (Express server.js, the heuristic-only worker, the  *)
(* OpenAI worker), the heuristic matcher, the model-response validator and *)
(* the address scrub.                                                      *)
(*                                                                         *)
(* Text is a sequence of atoms.  An atom is a one-character string where   *)
(* the code looks inside the text (triggers, messages, street addresses)   *)
(* and an opaque multi-character string where it does not (ids, URLs, the  *)
(* fixed sentences of the escalation template).  No pattern of the code    *)
(* matches inside an opaque atom.                                          *)
(*                                                                         *)
(* A JavaScript value is a record [t, v]: t is the typeof-like tag and v   *)
(* the payload.  Fixed-shape objects (KB, intent, route, model output)     *)
(* carry a record whose absent properties are Undef; objects with dynamic  *)
(* keys (the link table and its mode mappings) carry a sequence of         *)
(* [k, val] pairs in enumeration order.                                    *)
(***************************************************************************)
EXTENDS Integers, Sequences, FiniteSets, TLC

\* ---------------------------------------------------------------------
\* JavaScript values
\* ---------------------------------------------------------------------
Undef == [t |-> "undefined", v |-> <<>>]
Null == [t |-> "null", v |-> <<>>]
Bool(b) == [t |-> "boolean", v |-> b]
Num(n) == [t |-> "number", v |-> n]
Str(s) == [t |-> "string", v |-> s]
Arr(a) == [t |-> "array", v |-> a]
Obj(r) == [t |-> "object", v |-> r]
Map(p) == [t |-> "map", v |-> p]

\* !!x
Truthy(x) ==
  CASE x.t = "undefined" -> FALSE
    [] x.t = "null" -> FALSE
    [] x.t = "boolean" -> x.v
    [] x.t = "number" -> x.v # 0
    [] x.t = "string" -> x.v # <<>>
    [] OTHER -> TRUE

\* a || b
OrElse(a, b) == IF Truthy(a) THEN a ELSE b

Digit(d) == <<"0", "1", "2", "3", "4", "5", "6", "7", "8", "9">>[d + 1]

RECURSIVE NatToString(_)
NatToString(n) ==
  IF n < 10 THEN <<Digit(n)>> ELSE NatToString(n \div 10) \o <<Digit(n % 10)>>

RECURSIVE JsString(_)
RECURSIVE JoinValues(_, _)
\* Array.prototype.join over JS values (null and undefined join as "")
JoinValues(a, sep) ==
  IF a = <<>> THEN <<>>
  ELSE LET h == IF Head(a).t \in {"undefined", "null"} THEN <<>> ELSE JsString(Head(a))
       IN IF Len(a) = 1 THEN h ELSE h \o sep \o JoinValues(Tail(a), sep)

\* String(x)
JsString(x) ==
  CASE x.t = "string" -> x.v
    [] x.t = "undefined" -> <<"undefined">>
    [] x.t = "null" -> <<"null">>
    [] x.t = "boolean" -> IF x.v THEN <<"true">> ELSE <<"false">>
    [] x.t = "number" -> IF x.v < 0 THEN <<"-">> \o NatToString(-x.v) ELSE NatToString(x.v)
    [] x.t = "array" -> JoinValues(x.v, <<",">>)
    [] OTHER -> <<"[object Object]">>

\* ---------------------------------------------------------------------
\* Text primitives
\* ---------------------------------------------------------------------
UpperLetters ==
  <<"A", "B", "C", "D", "E", "F", "G", "H", "I", "J", "K", "L", "M",
    "N", "O", "P", "Q", "R", "S", "T", "U", "V", "W", "X", "Y", "Z">>
LowerLetters ==
  <<"a", "b", "c", "d", "e", "f", "g", "h", "i", "j", "k", "l", "m",
    "n", "o", "p", "q", "r", "s", "t", "u", "v", "w", "x", "y", "z">>

LowerChar(c) ==
  IF \E i \in 1..26 : UpperLetters[i] = c
  THEN LowerLetters[CHOOSE i \in 1..26 : UpperLetters[i] = c]
  ELSE c

toLowerCase(s) == [i \in 1..Len(s) |-> LowerChar(s[i])]

IsSpace(c) == c \in {" ", "\t", "\n"}
IsDigit(c) == c \in {"0", "1", "2", "3", "4", "5", "6", "7", "8", "9"}

\* s.slice(from) with a 0-based index
DropFirst(s, n) == SubSeq(s, n + 1, Len(s))

RECURSIVE TrimStart(_)
TrimStart(s) == IF s # <<>> /\ IsSpace(Head(s)) THEN TrimStart(Tail(s)) ELSE s

RECURSIVE TrimEnd(_)
TrimEnd(s) ==
  IF s # <<>> /\ IsSpace(s[Len(s)]) THEN TrimEnd(SubSeq(s, 1, Len(s) - 1)) ELSE s

trim(s) == TrimEnd(TrimStart(s))

\* s.replace(/\s+/g, " ")
RECURSIVE CollapseSpaces(_)
CollapseSpaces(s) ==
  IF s = <<>> THEN <<>>
  ELSE IF IsSpace(Head(s)) THEN <<" ">> \o CollapseSpaces(TrimStart(s))
  ELSE <<Head(s)>> \o CollapseSpaces(Tail(s))

\* hay.includes(needle)
Includes(hay, needle) ==
  \E i \in 1..(Len(hay) - Len(needle) + 1) : SubSeq(hay, i, i + Len(needle) - 1) = needle

StartsWith(s, p) == Len(s) >= Len(p) /\ SubSeq(s, 1, Len(p)) = p
EndsWith(s, p) == Len(s) >= Len(p) /\ SubSeq(s, Len(s) - Len(p) + 1, Len(s)) = p

\* s.lastIndexOf(c), 0-based, -1 when absent
LastIndexOf(s, c) ==
  IF \E i \in 1..Len(s) : s[i] = c
  THEN (CHOOSE i \in 1..Len(s) : s[i] = c /\ \A j \in (i + 1)..Len(s) : s[j] # c) - 1
  ELSE -1

\* s.split(" ").filter(Boolean)
RECURSIVE SplitWords(_, _)
SplitWords(s, cur) ==
  IF s = <<>> THEN (IF cur = <<>> THEN <<>> ELSE <<cur>>)
  ELSE IF Head(s) = " "
       THEN (IF cur = <<>> THEN <<>> ELSE <<cur>>) \o SplitWords(Tail(s), <<>>)
       ELSE SplitWords(Tail(s), Append(cur, Head(s)))

\* ---------------------------------------------------------------------
\* Heuristic matching
\* ---------------------------------------------------------------------
norm(s) == trim(CollapseSpaces(toLowerCase(JsString(OrElse(s, Str(<<>>))))))

\* isRegexTrigger with >= 0 for > 0: the leading slash counts as the closing one
isRegexTriggerAnySlash(t) ==
  t.t = "string" /\ StartsWith(t.v, <<"/">>) /\ LastIndexOf(t.v, "/") >= 0

isRegexTrigger(t) == t.t = "string" /\ StartsWith(t.v, <<"/">>) /\ LastIndexOf(t.v, "/") > 0

\* The flags the RegExp constructor accepts; a repeated or unknown flag is a SyntaxError.
RegexFlags == {"d", "g", "i", "m", "s", "u", "y"}

\* The patterns of the model are literal text, which matches as a substring, and
\* "(" opens a group that is never closed, which the RegExp constructor rejects.
PatternCompiles(pattern, flags) ==
  /\ \A i \in 1..Len(flags) : flags[i] \in RegexFlags
  /\ \A i, j \in 1..Len(flags) : flags[i] = flags[j] => i = j
  /\ \A i \in 1..Len(pattern) : pattern[i] # "("

\* compileRegex: the trigger text between the first and the last slash and the
\* flags after it; ok is FALSE where new RegExp throws.
compileRegex(trigger) ==
  LET lastSlash == LastIndexOf(trigger, "/")
      pattern == SubSeq(trigger, 2, lastSlash)
      flags == DropFirst(trigger, lastSlash + 1)
  IN [ok |-> PatternCompiles(pattern, flags), pattern |-> pattern, flags |-> flags]

\* r.test(message), on the raw message, for a fresh RegExp (lastIndex 0): with the
\* sticky flag the match has to start at the first character
HasFlag(r, f) == \E i \in 1..Len(r.flags) : r.flags[i] = f

RegexTest(r, message) ==
  IF HasFlag(r, "y")
  THEN IF HasFlag(r, "i")
       THEN StartsWith(toLowerCase(message), toLowerCase(r.pattern))
       ELSE StartsWith(message, r.pattern)
  ELSE IF HasFlag(r, "i")
       THEN Includes(toLowerCase(message), toLowerCase(r.pattern))
       ELSE Includes(message, r.pattern)

\* Ceil07 rounding down instead of up
Floor07(n) == (7 * n) \div 10

\* Math.ceil(n * 0.7)
Ceil07(n) == (7 * n + 9) \div 10

HitCount(msg, words) == Cardinality({i \in 1..Len(words) : Includes(msg, words[i])})

\* TriggerContribution with the partial-word bonus only where the substring test
\* failed
TriggerContributionExclusive(message, t) ==
  IF ~Truthy(t) THEN 0
  ELSE IF isRegexTrigger(t)
  THEN LET r == compileRegex(t.v)
       IN IF r.ok /\ RegexTest(r, JsString(message)) THEN 3 ELSE 0
  ELSE LET msg == norm(message)
           trig == norm(t)
           words == SplitWords(trig, <<>>)
       IN IF trig = <<>> THEN 0
          ELSE IF Includes(msg, trig) THEN 2
          ELSE IF Len(words) >= 2 /\ HitCount(msg, words) >= Ceil07(Len(words)) THEN 1
          ELSE 0

\* The body of scoreIntent's loop for one trigger: what it adds to score.
TriggerContribution(message, t) ==
  IF ~Truthy(t) THEN 0
  ELSE IF isRegexTrigger(t)
  THEN LET r == compileRegex(t.v)
       IN IF r.ok /\ RegexTest(r, JsString(message)) THEN 3 ELSE 0
  ELSE LET msg == norm(message)
           trig == norm(t)
           words == SplitWords(trig, <<>>)
       IN IF trig = <<>> THEN 0
          ELSE (IF Includes(msg, trig) THEN 2 ELSE 0)
               + (IF Len(words) >= 2 /\ HitCount(msg, words) >= Ceil07(Len(words))
                  THEN 1 ELSE 0)

\* for (const x of v): the elements, or threw where v is not iterable
Iterate(v) ==
  CASE v.t = "array" -> [threw |-> FALSE, items |-> v.v]
    [] v.t = "string" -> [threw |-> FALSE, items |-> [i \in 1..Len(v.v) |-> Str(<<v.v[i]>>)]]
    [] OTHER -> [threw |-> TRUE, items |-> <<>>]

\* x.name: Undef on a value without properties; reading a property of null or
\* undefined is the TypeError that CanRead excludes
CanRead(x) == x.t \notin {"null", "undefined"}
IntentTriggers(intent) == IF intent.t = "object" THEN intent.v.triggers ELSE Undef

RECURSIVE SumContributions(_, _)
SumContributions(message, ts) ==
  IF ts = <<>> THEN 0
  ELSE TriggerContribution(message, Head(ts)) + SumContributions(message, Tail(ts))

scoreIntent(message, intent) ==
  IF ~CanRead(intent) THEN [threw |-> TRUE, score |-> 0]
  ELSE LET triggers == Iterate(OrElse(IntentTriggers(intent), Arr(<<>>)))
       IN IF triggers.threw THEN [threw |-> TRUE, score |-> 0]
          ELSE [threw |-> FALSE, score |-> SumContributions(message, triggers.items)]

\* The threshold of findBestIntent
MinScore == 2

\* ScanIntents with >= for >: the last intent of equal score wins
RECURSIVE ScanIntentsLastWins(_, _, _)
ScanIntentsLastWins(message, intents, acc) ==
  IF intents = <<>> \/ acc.threw THEN acc
  ELSE LET s == scoreIntent(message, Head(intents))
       IN ScanIntentsLastWins(message, Tail(intents),
            IF s.threw THEN [acc EXCEPT !.threw = TRUE]
            ELSE IF s.score >= acc.bestScore
            THEN [threw |-> FALSE, best |-> Head(intents), bestScore |-> s.score]
            ELSE acc)

\* One pass of findBestIntent's loop: acc is [threw, best, bestScore].
RECURSIVE ScanIntents(_, _, _)
ScanIntents(message, intents, acc) ==
  IF intents = <<>> \/ acc.threw THEN acc
  ELSE LET s == scoreIntent(message, Head(intents))
       IN ScanIntents(message, Tail(intents),
            IF s.threw THEN [acc EXCEPT !.threw = TRUE]
            ELSE IF s.score > acc.bestScore
            THEN [threw |-> FALSE, best |-> Head(intents), bestScore |-> s.score]
            ELSE acc)

findBestIntent(message, kb) ==
  LET intents == Iterate(kb.intents_and_answers)
      r == ScanIntents(message, intents.items, [threw |-> intents.threw, best |-> Null, bestScore |-> 0])
  IN IF r.threw THEN [threw |-> TRUE, intent |-> Null, score |-> 0]
     ELSE IF ~Truthy(r.best) \/ r.bestScore < MinScore
     THEN [threw |-> FALSE, intent |-> Null, score |-> r.bestScore]
     ELSE [threw |-> FALSE, intent |-> r.best, score |-> r.bestScore]

\* ---------------------------------------------------------------------
\* Route resolution, formatting, escalation
\* ---------------------------------------------------------------------
\* Property names every object inherits from Object.prototype, and the inherited
\* value: a function (for "__proto__" the prototype object), truthy and no text
InheritedKeys ==
  {<<"constructor">>, <<"toString">>, <<"valueOf">>, <<"hasOwnProperty">>, <<"__proto__">>}
Inherited(key) == [t |-> "function", v |-> key]

\* o[key]: the own property of an object with dynamic keys, else the property
\* found on the prototype chain, else undefined
Lookup(o, key) ==
  IF o.t = "map" /\ \E i \in 1..Len(o.v) : o.v[i].k = key
  THEN o.v[CHOOSE i \in 1..Len(o.v) : o.v[i].k = key /\ \A j \in 1..(i - 1) : o.v[j].k # key].val
  ELSE IF CanRead(o) /\ key \in InheritedKeys THEN Inherited(key)
  ELSE Undef

\* Object.values(o)
ObjectValues(o) ==
  CASE o.t = "map" -> [i \in 1..Len(o.v) |-> o.v[i].val]
    [] o.t = "array" -> o.v
    [] OTHER -> <<>>

\* a.find(v => typeof v === "string")
FirstString(a) ==
  IF \E i \in 1..Len(a) : a[i].t = "string"
  THEN a[CHOOSE i \in 1..Len(a) : a[i].t = "string" /\ \A j \in 1..(i - 1) : a[j].t # "string"]
  ELSE Undef

RouteProp(route, name) == IF route.t = "object" THEN route.v[name] ELSE Undef

resolveRouteUrl(route, kb) ==
  IF ~Truthy(route) \/ route.t \notin {"object", "map", "array"} THEN Null
  ELSE IF RouteProp(route, "type") = Str(<<"url">>) /\ Truthy(RouteProp(route, "url"))
  THEN RouteProp(route, "url")
  ELSE IF RouteProp(route, "type") = Str(<<"square_package">>)
          /\ Truthy(RouteProp(route, "package_id"))
  THEN LET entry == Lookup(kb.square_booking_links, JsString(RouteProp(route, "package_id")))
           mode == OrElse(RouteProp(route, "mode"), Str(<<"studio">>))
           first == FirstString(ObjectValues(entry))
       IN IF ~Truthy(entry) THEN Null
          ELSE IF entry.t = "string" THEN entry
          ELSE IF Truthy(Lookup(entry, JsString(mode))) THEN Lookup(entry, JsString(mode))
          ELSE OrElse(first, Null)
  ELSE Null

\* url.replace(/([^:]\/)\/+/g, "$1"): a run of slashes that follows a non-colon
\* character and a slash is dropped
RECURSIVE SkipSlashes(_)
SkipSlashes(s) == IF s # <<>> /\ Head(s) = "/" THEN SkipSlashes(Tail(s)) ELSE s

RECURSIVE normalizeUrl(_)
normalizeUrl(s) ==
  IF Len(s) < 3 THEN s
  ELSE IF s[1] # ":" /\ s[2] = "/" /\ s[3] = "/"
  THEN <<s[1], "/">> \o normalizeUrl(SkipSlashes(DropFirst(s, 2)))
  ELSE <<s[1]>> \o normalizeUrl(Tail(s))

DefaultPhone == <<"+", "1", "-", "7", "5", "7", "-", "7", "5", "9", "-", "8", "4", "5", "4">>
DefaultSite == <<"https", ":", "/", "/", "motiontography.com">>

BusinessProp(kb, name) == IF kb.business.t = "object" THEN kb.business.v[name] ELSE Undef

buildEscalationReply(kb) ==
  LET phone == OrElse(BusinessProp(kb, "primary_phone"), Str(DefaultPhone))
      site == OrElse(BusinessProp(kb, "website"), Str(DefaultSite))
      contactUrl == normalizeUrl(JsString(site) \o <<"/", "contact.html">>)
  IN <<"I don't want to guess and give you the wrong info. Please contact Roger directly at", " ">>
     \o JsString(phone)
     \o <<" ", "(call/text)", ",", " ", "or use the contact page:", " ">>
     \o contactUrl

\* a.filter(Boolean)
RECURSIVE FilterTruthy(_)
FilterTruthy(a) ==
  IF a = <<>> THEN <<>>
  ELSE (IF Truthy(Head(a)) THEN <<Head(a)>> ELSE <<>>) \o FilterTruthy(Tail(a))

formatIntentAnswer(intent, kb) ==
  LET answer == intent.v.answer
      reply == IF answer.t = "array"
               THEN JoinValues(FilterTruthy(answer.v), <<"\n", "\n">>)
               ELSE trim(JsString(OrElse(answer, Str(<<>>))))
  IN [reply |-> Str(reply),
      followups |-> OrElse(intent.v.followups, Arr(<<>>)),
      route_url |-> resolveRouteUrl(intent.v.route, kb)]

\* ---------------------------------------------------------------------
\* Address scrub
\* ---------------------------------------------------------------------
SafePhrase == <<"Studio in Suffolk", ",", " ", "VA">>

RECURSIVE SkipSpacesFrom(_, _)
SkipSpacesFrom(s, i) == IF i <= Len(s) /\ IsSpace(s[i]) THEN SkipSpacesFrom(s, i + 1) ELSE i

RECURSIVE SkipDigitsFrom(_, _)
SkipDigitsFrom(s, i) == IF i <= Len(s) /\ IsDigit(s[i]) THEN SkipDigitsFrom(s, i + 1) ELSE i

RECURSIVE SkipNonCommaFrom(_, _)
SkipNonCommaFrom(s, i) == IF i <= Len(s) /\ s[i] # "," THEN SkipNonCommaFrom(s, i + 1) ELSE i

\* the lower-case literal lit occurs at index i of s, compared case-insensitively
LitAt(s, i, lit) ==
  /\ i + Len(lit) - 1 <= Len(s)
  /\ \A k \in 1..Len(lit) : LowerChar(s[i + k - 1]) = lit[k]

\* R(oa)?d at index i: the index after the match, 0 when there is none
RoadEndAt(s, i) ==
  IF LitAt(s, i, <<"r", "o", "a", "d">>) THEN i + 4
  ELSE IF LitAt(s, i, <<"r", "d">>) THEN i + 2
  ELSE 0

\* /109\s*Abbey\s*R(oa)?d[^,]*/i at index i: the index after the match, 0 when none
StudioAddressEndAt(s, i) ==
  IF ~LitAt(s, i, <<"1", "0", "9">>) THEN 0
  ELSE LET j == SkipSpacesFrom(s, i + 3)
       IN IF ~LitAt(s, j, <<"a", "b", "b", "e", "y">>) THEN 0
          ELSE LET e == RoadEndAt(s, SkipSpacesFrom(s, j + 5))
               IN IF e = 0 THEN 0 ELSE SkipNonCommaFrom(s, e)

\* /\d+\s+Abbey\s+R(oa)?d/i at index i: the index after the match, 0 when none
AnyNumberAddressEndAt(s, i) ==
  IF ~(i <= Len(s) /\ IsDigit(s[i])) THEN 0
  ELSE LET j == SkipDigitsFrom(s, i)
           k == SkipSpacesFrom(s, j)
           m == SkipSpacesFrom(s, k + 5)
       IN IF k = j \/ ~LitAt(s, k, <<"a", "b", "b", "e", "y">>) \/ m = k + 5 THEN 0
          ELSE RoadEndAt(s, m)

\* text.replace(/109\s*Abbey\s*R(oa)?d[^,]*/gi, "Studio in Suffolk, VA")
RECURSIVE ReplaceStudioAddress(_, _)
ReplaceStudioAddress(s, i) ==
  IF i > Len(s) THEN <<>>
  ELSE IF StudioAddressEndAt(s, i) > 0
  THEN SafePhrase \o ReplaceStudioAddress(s, StudioAddressEndAt(s, i))
  ELSE <<s[i]>> \o ReplaceStudioAddress(s, i + 1)

\* text.replace(/\d+\s+Abbey\s+R(oa)?d/gi, "Studio in Suffolk, VA")
RECURSIVE ReplaceAnyNumberAddress(_, _)
ReplaceAnyNumberAddress(s, i) ==
  IF i > Len(s) THEN <<>>
  ELSE IF AnyNumberAddressEndAt(s, i) > 0
  THEN SafePhrase \o ReplaceAnyNumberAddress(s, AnyNumberAddressEndAt(s, i))
  ELSE <<s[i]>> \o ReplaceAnyNumberAddress(s, i + 1)

scrubAddressStudioOnly(text) ==
  IF text = <<>> THEN text
  ELSE ReplaceStudioAddress(text, 1)

scrubAddress(text) ==
  IF text = <<>> THEN text
  ELSE ReplaceAnyNumberAddress(ReplaceStudioAddress(text, 1), 1)

\* the text has a match of one of the two address patterns
ContainsAddress(text) ==
  \E i \in 1..Len(text) : StudioAddressEndAt(text, i) > 0 \/ AnyNumberAddressEndAt(text, i) > 0

\* ---------------------------------------------------------------------
\* Model-response validator
\* ---------------------------------------------------------------------
\* The backquote character is the atom "bq".
Fence == <<"bq", "bq", "bq">>
JsonFence == <<"bq", "bq", "bq", "j", "s", "o", "n">>

\* A model output object: the seven properties the validator reads.
ModelObject(intent_id, confidence, reply, followups, links_shared, escalated, kb_evidence) ==
  Obj([intent_id |-> intent_id, confidence |-> confidence, reply |-> reply,
       followups |-> followups, links_shared |-> links_shared,
       escalated |-> escalated, kb_evidence |-> kb_evidence])

TextOk == <<"We offer studio sessions.">>
TextAddress == <<"1", "0", "9", " ", "A", "b", "b", "e", "y", " ", "R", "d">>
TextAddressAlt == <<"V", "i", "s", "i", "t", " ", "1", "2", " ", "a", "b", "b", "e", "y", " ", "R", "O", "A", "D", ",", " ", "V", "A">>
UrlBooking == <<"https", ":", "/", "/", "squareup.com", "/", "book">>
UrlUnknown == <<"https", ":", "/", "/", "evil.example", "/", "x">>

\* JSON.parse on the documents the model of the network can return: a JSON text is
\* one opaque atom, and every other text is a SyntaxError.
JsonDocuments ==
  [doc \in {"{}", "{ok}", "{escalated}", "{reply:address}", "{followups:address}",
            "{links:address}", "{evidence:address}", "{reply:0,escalated:'no'}",
            "{confidence:5,links:unknown}", "null", "5", "'text'", "[]", "true"} |->
    CASE doc = "{}" -> ModelObject(Undef, Undef, Undef, Undef, Undef, Undef, Undef)
      [] doc = "{ok}" ->
           ModelObject(Str(<<"hours">>), Num(1), Str(TextOk), Arr(<<Str(<<"Anything else?">>)>>),
                       Arr(<<Str(UrlBooking)>>), Bool(FALSE), Arr(<<Str(<<"business.hours">>)>>))
      [] doc = "{escalated}" ->
           ModelObject(Null, Num(0), Str(<<"Please contact Roger.">>), Arr(<<>>), Arr(<<>>),
                       Bool(TRUE), Arr(<<>>))
      [] doc = "{reply:address}" ->
           ModelObject(Str(<<"location">>), Num(1), Str(TextAddressAlt), Arr(<<>>), Arr(<<>>),
                       Bool(FALSE), Arr(<<>>))
      [] doc = "{followups:address}" ->
           ModelObject(Str(<<"location">>), Num(1), Str(TextOk), Arr(<<Str(TextAddress)>>),
                       Arr(<<>>), Bool(FALSE), Arr(<<>>))
      [] doc = "{links:address}" ->
           ModelObject(Str(<<"location">>), Num(1), Str(TextOk), Arr(<<>>),
                       Arr(<<Str(TextAddress)>>), Bool(FALSE), Arr(<<>>))
      [] doc = "{evidence:address}" ->
           ModelObject(Str(<<"location">>), Num(1), Str(TextOk), Arr(<<>>), Arr(<<>>),
                       Bool(FALSE), Arr(<<Str(TextAddress)>>))
      [] doc = "{reply:0,escalated:'no'}" ->
           ModelObject(Num(7), Str(<<"high">>), Num(0), Str(<<"none">>), Null,
                       Str(<<"n", "o">>), Obj([a |-> Num(1)]))
      [] doc = "{confidence:5,links:unknown}" ->
           ModelObject(Str(<<"hours">>), Num(5), Num(42), Arr(<<>>), Arr(<<Str(UrlUnknown)>>),
                       Num(1), Arr(<<>>))
      [] doc = "null" -> Null
      [] doc = "5" -> Num(5)
      [] doc = "'text'" -> Str(TextOk)
      [] doc = "[]" -> Arr(<<>>)
      [] doc = "true" -> Bool(TRUE)]

JsonParses(text) == Len(text) = 1 /\ text[1] \in DOMAIN JsonDocuments
JsonParse(text) == JsonDocuments[text[1]]

\* The code-fence stripping of parseModelResponse
StripFences(rawText) ==
  LET cleaned == trim(rawText)
      opened == IF StartsWith(cleaned, JsonFence) THEN DropFirst(cleaned, 7)
                ELSE IF StartsWith(cleaned, Fence) THEN DropFirst(cleaned, 3)
                ELSE cleaned
      closed == IF EndsWith(opened, Fence) THEN SubSeq(opened, 1, Len(opened) - 3) ELSE opened
  IN trim(closed)

ParsedProp(parsed, name) == IF parsed.t = "object" THEN parsed.v[name] ELSE Undef

NoResult ==
  [intent_id |-> Null, confidence |-> Num(0), reply |-> Str(<<>>), followups |-> Arr(<<>>),
   links_shared |-> Arr(<<>>), escalated |-> Bool(FALSE), kb_evidence |-> Arr(<<>>)]

\* parseModelResponse: threw where JSON.parse or a property read throws
parseModelResponse(rawText) ==
  LET cleaned == StripFences(rawText)
  IN IF ~JsonParses(cleaned) \/ ~CanRead(JsonParse(cleaned))
     THEN [threw |-> TRUE, value |-> NoResult]
     ELSE LET parsed == JsonParse(cleaned)
              arrayOr(x) == IF x.t = "array" THEN x ELSE Arr(<<>>)
          IN [threw |-> FALSE,
              value |->
                [intent_id |-> OrElse(ParsedProp(parsed, "intent_id"), Null),
                 confidence |-> IF ParsedProp(parsed, "confidence").t = "number"
                                THEN ParsedProp(parsed, "confidence") ELSE Num(0),
                 reply |-> Str(JsString(OrElse(ParsedProp(parsed, "reply"), Str(<<>>)))),
                 followups |-> arrayOr(ParsedProp(parsed, "followups")),
                 links_shared |-> arrayOr(ParsedProp(parsed, "links_shared")),
                 escalated |-> Bool(Truthy(ParsedProp(parsed, "escalated"))),
                 kb_evidence |-> arrayOr(ParsedProp(parsed, "kb_evidence"))]]

\* ---------------------------------------------------------------------
\* The model call
\* ---------------------------------------------------------------------
\* What the network gives callOpenAI: a rejected fetch, a response that is not
\* ok, or a successful response carrying the text content `text` (possibly none).
NetworkError == [kind |-> "network_error", text |-> <<>>]
HttpError == [kind |-> "http_error", text |-> <<>>]
TextOutcome(text) == [kind |-> "text", text |-> text]

\* callOpenAI: server.js's lib throws on empty content, the worker returns "".
callOpenAI(variant, outcome) ==
  IF outcome.kind # "text" THEN [threw |-> TRUE, text |-> <<>>]
  ELSE IF variant = "express" /\ outcome.text = <<>> THEN [threw |-> TRUE, text |-> <<>>]
  ELSE [threw |-> FALSE, text |-> outcome.text]

openAiRouteAndAnswer(variant, outcome) ==
  LET rawResponse == callOpenAI(variant, outcome)
      parsed == parseModelResponse(rawResponse.text)
  IN IF rawResponse.threw \/ parsed.threw THEN [threw |-> TRUE, value |-> NoResult]
     ELSE [threw |-> FALSE,
           value |-> IF Truthy(parsed.value.reply)
                     THEN [parsed.value EXCEPT !.reply = Str(scrubAddress(parsed.value.reply.v))]
                     ELSE parsed.value]

\* ---------------------------------------------------------------------
\* The chat handler
\* ---------------------------------------------------------------------
Variants == {"express", "worker", "worker_openai"}

\* The response object of a handler; a property it does not have is Undef.
Response(reply, followups, route_url, links_shared, kb_evidence) ==
  Obj([reply |-> reply, followups |-> followups, route_url |-> route_url,
       links_shared |-> links_shared, kb_evidence |-> kb_evidence])

\* The handler's local variables as declared, and the records this request has
\* appended to the log files, in order.
InitLocals ==
  [response |-> Undef, matched_intent_id |-> Null, match_score |-> Num(0),
   used_openai |-> FALSE, escalated |-> FALSE, kb_evidence |-> Arr(<<>>),
   links_shared |-> Arr(<<>>), appended |-> <<>>]

FaqCandidate(reason) == [file |-> "NEW_FAQ_CANDIDATES", reason |-> reason]

\* appendJsonl, which only server.js has
Log(variant, L, rec) ==
  IF variant = "express" THEN [L EXCEPT !.appended = Append(@, rec)] ELSE L

\* The statements of the try block after the awaited call has returned aiResult
AdoptModelResult(variant, L, ai) ==
  IF variant = "express"
  THEN LET links == OrElse(ai.links_shared, Arr(<<>>))
           L1 == [L EXCEPT !.used_openai = TRUE,
                           !.matched_intent_id = ai.intent_id,
                           !.match_score = ai.confidence,
                           !.escalated = Truthy(ai.escalated),
                           !.kb_evidence = OrElse(ai.kb_evidence, Arr(<<>>)),
                           !.links_shared = links,
                           !.response = Response(ai.reply, ai.followups,
                                          IF Len(links.v) > 0 THEN links.v[1] ELSE Null,
                                          Undef, Undef)]
       IN IF L1.escalated THEN Log(variant, L1, FaqCandidate("AI escalated - not in KB")) ELSE L1
  ELSE [L EXCEPT !.used_openai = TRUE,
                 !.matched_intent_id = ai.intent_id,
                 !.match_score = ai.confidence,
                 !.escalated = Truthy(ai.escalated),
                 !.response = Response(ai.reply, ai.followups, Undef,
                                       ai.links_shared, ai.kb_evidence)]

\* TryModel with used_openai set before the awaited call instead of after it
TryModelFlagFirst(variant, L, outcome) ==
  LET ai == openAiRouteAndAnswer(variant, outcome)
  IN IF ai.threw THEN [L EXCEPT !.used_openai = TRUE]
     ELSE AdoptModelResult(variant, L, ai.value)

\* try { aiResult = await openAiRouteAndAnswer(...); ... } catch (err) { }
TryModel(variant, L, outcome) ==
  LET ai == openAiRouteAndAnswer(variant, outcome)
  IN IF ai.threw THEN L ELSE AdoptModelResult(variant, L, ai.value)

\* NeedsHeuristic without its guard: the heuristic block always runs
NeedsHeuristicAlways(variant, L) == TRUE

\* The condition that guards the heuristic block
NeedsHeuristic(variant, L) ==
  CASE variant = "express" -> ~Truthy(L.response)
    [] variant = "worker_openai" -> ~L.used_openai
    [] OTHER -> TRUE

EscalationResponse(kb) == Response(Str(buildEscalationReply(kb)), Arr(<<>>), Null, Undef, Undef)

IntentId(intent) ==
  OrElse(intent.v.id, OrElse(intent.v.intent_id, OrElse(intent.v.name, Null)))

\* HeuristicMatched without the candidate record for an empty answer
HeuristicMatchedUnlogged(variant, L, kb, formatted) ==
  IF ~Truthy(formatted.reply)
  THEN [L EXCEPT !.response = EscalationResponse(kb), !.escalated = TRUE]
  ELSE [L EXCEPT !.response = Response(formatted.reply, formatted.followups,
                                       formatted.route_url, Undef, Undef)]

\* if (!response.reply): the matched intent whose formatted reply is empty
HeuristicMatched(variant, L, kb, formatted) ==
  IF ~Truthy(formatted.reply)
  THEN Log(variant, [L EXCEPT !.response = EscalationResponse(kb), !.escalated = TRUE],
           FaqCandidate("Matched intent but empty answer (heuristic)"))
  ELSE [L EXCEPT !.response = Response(formatted.reply, formatted.followups,
                                       formatted.route_url, Undef, Undef)]

\* The heuristic block after findBestIntent has returned `found`
HeuristicFound(variant, L, kb, found) ==
  IF found.threw THEN [threw |-> TRUE, locals |-> L]
  ELSE IF Truthy(found.intent)
  THEN [threw |-> FALSE,
        locals |-> HeuristicMatched(variant,
                     [L EXCEPT !.match_score = Num(found.score),
                               !.matched_intent_id = IntentId(found.intent)],
                     kb, formatIntentAnswer(found.intent, kb))]
  ELSE [threw |-> FALSE,
        locals |-> Log(variant,
                       [L EXCEPT !.match_score = Num(found.score),
                                 !.response = EscalationResponse(kb), !.escalated = TRUE],
                       FaqCandidate("No intent match (heuristic fallback)"))]

\* The heuristic block: threw where findBestIntent throws
Heuristic(variant, L, message, kb) ==
  HeuristicFound(variant, L, kb, findBestIntent(message, kb))

\* The final scrub of server.js and its transcript record
FinalScrub(variant, L) ==
  IF variant = "express"
  THEN LET reply == L.response.v.reply
           scrubbed == IF Truthy(reply) THEN Str(scrubAddress(reply.v)) ELSE reply
       IN Log(variant, [L EXCEPT !.response = Obj([L.response.v EXCEPT !.reply = scrubbed])],
              [file |-> "transcripts", reason |-> "transcript"])
  ELSE L

\* What the caller receives
NoBody ==
  [kind |-> "none", matched_intent_id |-> Undef, match_score |-> Undef, used_openai |-> Undef,
   escalated |-> Undef, kb_evidence |-> Undef, reply |-> Undef, followups |-> Undef,
   route_url |-> Undef, links_shared |-> Undef]
BadRequest == [NoBody EXCEPT !.kind = "400"]
Raised == [NoBody EXCEPT !.kind = "raised"]

\* The JSON body of the 200 response
Body(variant, L) ==
  LET r == L.response.v
  IN CASE variant = "express" ->
            [kind |-> "200", matched_intent_id |-> L.matched_intent_id,
             match_score |-> L.match_score, used_openai |-> Bool(L.used_openai),
             escalated |-> Bool(L.escalated), kb_evidence |-> L.kb_evidence,
             reply |-> r.reply, followups |-> r.followups, route_url |-> r.route_url,
             links_shared |-> Undef]
       [] variant = "worker_openai" ->
            [kind |-> "200", matched_intent_id |-> L.matched_intent_id,
             match_score |-> L.match_score, used_openai |-> Bool(L.used_openai),
             escalated |-> Bool(L.escalated), kb_evidence |-> r.kb_evidence,
             reply |-> r.reply, followups |-> r.followups, route_url |-> r.route_url,
             links_shared |-> r.links_shared]
       [] OTHER ->
            [kind |-> "200", matched_intent_id |-> L.matched_intent_id,
             match_score |-> L.match_score, used_openai |-> Undef,
             escalated |-> Undef, kb_evidence |-> Undef,
             reply |-> r.reply, followups |-> r.followups, route_url |-> r.route_url,
             links_shared |-> Undef]

\* The scrub, the transcript and the response, once the locals are final
Respond(variant, L, passed) ==
  [out |-> Body(variant, L), locals |-> L, trace |-> Append(passed, "RESULT")]

\* After the heuristic block: a throw or a read of an undefined response leaves
\* the handler without a response
Finish(variant, h, passed) ==
  IF h.threw \/ ~CanRead(h.locals.response)
  THEN [out |-> Raised, locals |-> h.locals, trace |-> Append(passed, "RAISED")]
  ELSE Respond(variant, FinalScrub(variant, h.locals), passed)

\* The handler from the heuristic block to its return, run without suspension:
\* the body it sends, the locals at the end and the orchestrator states passed.
Complete(variant, L, message, kb, steps) ==
  IF NeedsHeuristic(variant, L)
  THEN Finish(variant, Heuristic(variant, L, message, kb), Append(steps, "HEURISTIC_ATTEMPT"))
  ELSE Finish(variant, [threw |-> FALSE, locals |-> L], steps)

\* if (!message || typeof message !== "string")
InvalidMessage(message) == ~Truthy(message) \/ message.t # "string"

\* ---------------------------------------------------------------------
\* Knowledge bases, messages and model outputs of the model
\* ---------------------------------------------------------------------
Intent(id, name, triggers, answer, followups, route) ==
  Obj([id |-> id, intent_id |-> Undef, name |-> name, triggers |-> triggers,
       answer |-> answer, followups |-> followups, route |-> route])

Route(type, url, package_id, mode) ==
  Obj([type |-> Str(<<type>>), url |-> url, package_id |-> package_id, mode |-> mode])

KV(k, val) == [k |-> k, val |-> val]

UrlStudio == <<"https", ":", "/", "/", "squareup.com", "/", "studio">>
UrlOnLocation == <<"https", ":", "/", "/", "squareup.com", "/", "on_location">>

LinkTable ==
  Map(<<KV(<<"pkg">>, Map(<<KV(<<"on_location">>, Str(UrlOnLocation)),
                          KV(<<"studio">>, Str(UrlStudio))>>)),
        KV(<<"solo">>, Str(UrlBooking))>>)

\* "a b" scores 3 on a message containing "a b" and 1 on "b a"
IntentPhrase ==
  Intent(Str(<<"phrase">>), Undef, Arr(<<Str(<<"a", " ", "b">>)>>), Str(TextOk),
         Arr(<<Str(<<"Anything else?">>)>>), Route("url", Str(UrlBooking), Undef, Undef))

IntentWord ==
  Intent(Str(<<"word">>), Undef, Arr(<<Str(<<"a">>), Str(<<"/", "B", "/">>)>>),
         Arr(<<Str(<<"Part one.">>), Str(<<>>), Str(<<"Part two.">>)>>),
         Undef, Route("square_package", Undef, Str(<<"pkg">>), Undef))

\* matches "b" but its answer trims to nothing
IntentEmpty ==
  Intent(Str(<<"empty">>), Undef, Arr(<<Null, Str(<<"b">>)>>), Str(<<" ">>),
         Arr(<<Str(<<"Anything else?">>)>>), Route("url", Str(UrlBooking), Undef, Undef))

\* a KB edit that put the street address in an answer; a pattern that does not
\* compile; a route to a package the link table does not have
IntentAddress ==
  Intent(Undef, Str(<<"address">>), Arr(<<Str(<<"a">>), Str(<<"/", "(", "/">>)>>),
         Str(TextAddress), Undef, Route("square_package", Undef, Str(<<"gone">>), Undef))

\* "triggers": 5
IntentBadTriggers ==
  Intent(Str(<<"bad">>), Undef, Num(5), Str(TextOk), Undef, Undef)

IntentPool == {IntentPhrase, IntentWord, IntentEmpty, IntentAddress, IntentBadTriggers, Null}

MaxIntents == 2

Business ==
  Obj([primary_phone |-> Undef,
       website |-> Str(<<"https", ":", "/", "/", "motiontography.com", "/">>)])

\* A section of the KB that the chat logic never reads
Section == Map(<<>>)

\* The parsed KB file: its seven top-level keys; a key the file lacks is Undef
KnowledgeBase(business, links, intents) ==
  [business |-> business, square_booking_links |-> links, packages |-> Arr(<<>>),
   booking_policies |-> Section, intents_and_answers |-> intents,
   bot_guardrails |-> Section, learning_and_review_workflow |-> Section]

KBs ==
  {KnowledgeBase(b, LinkTable, Arr(is)) :
     b \in {Business},
     is \in UNION {[1..n -> IntentPool] : n \in 0..MaxIntents}}

Messages ==
  {Str(<<"a">>), Str(<<"a", " ", "b">>), Str(<<"b", " ", "a">>), Str(<<"A", " ", "\t", "B">>),
   Str(<<"z">>), Str(<<>>), Num(5), Undef}

Fenced(text) == JsonFence \o <<"\n">> \o text \o <<"\n">> \o Fence

RawTexts ==
  {<<doc>> : doc \in DOMAIN JsonDocuments}
    \cup {Fenced(<<"{ok}">>), Fence \o <<"5">> \o Fence, <<" ", "{}", "\n">>,
          <<"S", "o", "r", "r", "y">>, Fenced(<<"S", "o", "r", "r", "y">>), <<>>}

ModelOutcomes == {NetworkError, HttpError} \cup {TextOutcome(text) : text \in RawTexts}

NoOutcome == [kind |-> "none", text |-> <<>>]

\* ---------------------------------------------------------------------
\* State
\* ---------------------------------------------------------------------
VARIABLES
  variant,        \* the deployment: server.js, the heuristic worker, the OpenAI worker
  apiKey,         \* whether OPENAI_API_KEY is configured
  KB,             \* the KB the host holds
  pc,             \* "idle", "awaitModel" (suspended at the awaited model call), "done"
  message,        \* the message of the request being handled
  locals,         \* the handler's local variables
  modelOutcome,   \* what the network returned to the awaited call
  out,            \* what the caller has received
  trace,          \* the orchestrator states this request has passed
  probe,          \* the last direct call of a pure function: its arguments and result
  kbReads,        \* the KB objects this request has read, in order
  now,            \* Date.now()
  KB_CACHE_TIME,  \* when the worker's cache was filled
  lastLoad        \* the last call of loadKB: its outcome and what was held before it

vars ==
  <<variant, apiKey, KB, pc, message, locals, modelOutcome, out, trace, probe,
    kbReads, now, KB_CACHE_TIME, lastLoad>>

\* What a load leaves alone is the request in progress; what a request leaves
\* alone is the KB held
requestVars == <<pc, message, locals, modelOutcome, out, trace, kbReads>>
loadVars == <<now, KB_CACHE_TIME, lastLoad>>

NoLoad == [status |-> "none", by |-> "none", heldBefore |-> <<>>, timeBefore |-> 0]

NoProbe == [message |-> Undef, found |-> [threw |-> FALSE, intent |-> Null, score |-> 0]]

\* No request has been handled yet
Idle ==
  /\ pc = "idle"
  /\ message = Undef
  /\ locals = InitLocals
  /\ modelOutcome = NoOutcome
  /\ out = NoBody
  /\ trace = <<>>
  /\ probe = NoProbe
  /\ kbReads = <<>>
  /\ now = 0
  /\ KB_CACHE_TIME = 0
  /\ lastLoad = NoLoad

Init ==
  /\ variant \in Variants
  /\ apiKey \in (IF variant = "worker" THEN {FALSE} ELSE BOOLEAN)
  /\ KB \in KBs
  /\ Idle

\* The handler from the validation of the message to its first suspension or to
\* its return, reading the KB kb. The model call is handed kb before it suspends.
Handle(m, kb) ==
  /\ message' = m
  /\ modelOutcome' = NoOutcome
  /\ IF InvalidMessage(m)
     THEN /\ pc' = "done"
          /\ out' = BadRequest
          /\ locals' = InitLocals
          /\ trace' = <<"START", "REJECTED">>
          /\ kbReads' = <<>>
     ELSE IF variant # "worker" /\ apiKey
     THEN /\ pc' = "awaitModel"
          /\ out' = NoBody
          /\ locals' = InitLocals
          /\ trace' = <<"START", "MODEL_ATTEMPT">>
          /\ kbReads' = <<kb>>
     ELSE \E c \in {Complete(variant, InitLocals, m, kb, <<"START">>)} :
            /\ pc' = "done"
            /\ out' = c.out
            /\ locals' = c.locals
            /\ trace' = c.trace
            /\ kbReads' = <<kb>>

\* A request arrives at a host that holds its KB.
ChatRequest(m) ==
  /\ pc \in {"idle", "done"}
  /\ Handle(m, KB)
  /\ UNCHANGED <<variant, apiKey, KB, probe>>
  /\ UNCHANGED loadVars

\* The KB the handler reads after the awaited call: server.js reads the global KB
\* again, a worker reads the local kb it loaded when the request arrived.
HandlerKB == IF variant = "express" THEN KB ELSE kbReads[1]

\* The awaited model call settles and the handler runs to its return.
ModelSettles(o) ==
  /\ pc = "awaitModel"
  /\ modelOutcome' = o
  /\ \E c \in {Complete(variant, TryModel(variant, locals, o), message, HandlerKB,
                           Append(trace, IF openAiRouteAndAnswer(variant, o).threw
                                         THEN "MODEL_FAILURE" ELSE "MODEL_SUCCESS"))} :
       /\ pc' = "done"
       /\ out' = c.out
       /\ locals' = c.locals
       /\ trace' = c.trace
       /\ kbReads' = IF c.trace[Len(c.trace) - 1] = "HEURISTIC_ATTEMPT"
                     THEN Append(kbReads, HandlerKB) ELSE kbReads
  /\ UNCHANGED <<variant, apiKey, KB, message, probe>>
  /\ UNCHANGED loadVars

Next ==
  \/ \E m \in Messages : ChatRequest(m)
  \/ \E o \in ModelOutcomes : ModelSettles(o)

Spec == Init /\ [][Next]_vars

\* findBestIntent on its own, over the KB held and every message a handler passes it
ValidMessages == {m \in Messages : ~InvalidMessage(m)}

InitSelect == Init /\ variant = "express" /\ ~apiKey

SelectIntent(m) ==
  /\ probe' = [message |-> m, found |-> findBestIntent(m, KB)]
  /\ UNCHANGED <<variant, apiKey, KB>>
  /\ UNCHANGED requestVars
  /\ UNCHANGED loadVars

NextSelect == \E m \in ValidMessages : SelectIntent(m)

SpecSelect == InitSelect /\ [][NextSelect]_vars

\* parseModelResponse on its own, over every text the model call can return
ParseModelOutput(text) ==
  /\ probe' = [message |-> Str(text), found |-> parseModelResponse(text)]
  /\ UNCHANGED <<variant, apiKey, KB>>
  /\ UNCHANGED requestVars
  /\ UNCHANGED loadVars

NextParse == \E text \in RawTexts : ParseModelOutput(text)

SpecParse == InitSelect /\ [][NextParse]_vars

\* scoreIntent and findBestIntent on their own, over intents built from a pool of
\* triggers: literal words and phrases, text that only looks like a pattern,
\* patterns that compile and patterns that do not, and values that are no text.
TriggerPool ==
  {Str(<<"a">>), Str(<<"a", " ", "b">>), Str(<<"b", " ", " ", "A">>), Str(<<"a", " ", "z">>),
   Str(<<"a", " ", "b", " ", "z">>), Str(<<" ">>), Null, Num(5),
   Str(<<"/">>), Str(<<"/", "a">>), Str(<<"/", "a", "/">>), Str(<<"/", "A", "/", "i">>),
   Str(<<"/", "(", "/">>), Str(<<"/", "a", "/", "q">>), Str(<<"/", "b", "/", "y">>)}

MaxTriggers == 2

ScoredIntent(triggers) == Intent(Str(<<"scored">>), Undef, triggers, Str(TextOk), Undef, Undef)

\* The wardrobe scenario of the acceptance tests
WardrobeMessage == Str(<<"w", "h", "a", "t", " ", "d", "o", " ", "I", " ", "w", "e", "a", "r", " ", "f", "o", "r", " ", "a", " ", "m", "a", "t", "e", "r", "n", "i", "t", "y", " ", "s", "h", "o", "o", "t">>)
WardrobeIntent ==
  Intent(Str(<<"what_to_wear">>), Undef, Arr(<<Str(<<"w", "h", "a", "t", " ", "t", "o", " ", "w", "e", "a", "r">>)>>),
         Str(TextOk), Undef, Undef)

ScoreIntents ==
  {ScoredIntent(Arr(ts)) : ts \in UNION {[1..n -> TriggerPool] : n \in 0..MaxTriggers}}
    \cup {ScoredIntent(Undef), ScoredIntent(Str(<<"a", "b">>)), WardrobeIntent}

ScoreMessages ==
  {Str(<<"a">>), Str(<<"A">>), Str(<<"a", " ", "b">>), Str(<<"b", " ", "a">>),
   Str(<<"x", "\t", "A", " ", "5">>), Str(<<"/", "a">>), WardrobeMessage}

ScoreKBs == {KnowledgeBase(Business, LinkTable, Arr(<<intent>>)) : intent \in ScoreIntents}

InitScore ==
  /\ variant = "express"
  /\ apiKey = FALSE
  /\ KB \in ScoreKBs
  /\ Idle

ScoreOneIntent(m) ==
  /\ \E i \in 1..Len(KB.intents_and_answers.v) :
       probe' = [message |-> m, intent |-> KB.intents_and_answers.v[i],
                 found |-> scoreIntent(m, KB.intents_and_answers.v[i])]
  /\ UNCHANGED <<variant, apiKey, KB>>
  /\ UNCHANGED requestVars
  /\ UNCHANGED loadVars

NextScore ==
  \/ \E m \in ScoreMessages : ScoreOneIntent(m)
  \/ \E m \in ScoreMessages : SelectIntent(m)

SpecScore == InitScore /\ [][NextScore]_vars

\* ---------------------------------------------------------------------
\* Loading the KB: startup and admin reload of server.js, the workers' cache
\* ---------------------------------------------------------------------
CACHE_TTL_MS == 300000

\* The keys loadKB requires: server.js also requires learning_and_review_workflow
RequiredTopKeys(v) ==
  {"business", "square_booking_links", "packages", "booking_policies",
   "intents_and_answers", "bot_guardrails"}
    \cup (IF v = "express" THEN {"learning_and_review_workflow"} ELSE {})

\* What reading and parsing the KB file (fetching it, in a worker) gives: an
\* error, a response that is not ok, the JSON null, or a JSON object.
Unreadable == [kind |-> "unreadable", kb |-> Null]
NotOk == [kind |-> "not_ok", kb |-> Null]
NullFile == [kind |-> "null", kb |-> Null]
JsonFile(kb) == [kind |-> "object", kb |-> kb]

\* loadKB without its required-key loop
loadKBUnchecked(v, file) ==
  IF file.kind # "object" THEN [threw |-> TRUE, kb |-> Null]
  ELSE IF v = "express"
          /\ (file.kb.intents_and_answers.t # "array" \/ file.kb.packages.t # "array")
  THEN [threw |-> TRUE, kb |-> Null]
  ELSE [threw |-> FALSE, kb |-> file.kb]

\* loadKB past the read and the cache test: threw where the read, the fetch, the
\* parse, the `in` test on a non-object or a sanity check throws
loadKB(v, file) ==
  IF file.kind # "object" THEN [threw |-> TRUE, kb |-> Null]
  ELSE IF \E k \in RequiredTopKeys(v) : file.kb[k] = Undef THEN [threw |-> TRUE, kb |-> Null]
  ELSE IF v = "express"
          /\ (file.kb.intents_and_answers.t # "array" \/ file.kb.packages.t # "array")
  THEN [threw |-> TRUE, kb |-> Null]
  ELSE [threw |-> FALSE, kb |-> file.kb]

KBOne == KnowledgeBase(Business, LinkTable, Arr(<<IntentPhrase>>))
KBTwo == KnowledgeBase(Business, LinkTable, Arr(<<IntentWord, IntentEmpty>>))

KBFiles ==
  {Unreadable, NotOk, NullFile, JsonFile(KBOne), JsonFile(KBTwo),
   JsonFile([KBTwo EXCEPT !.bot_guardrails = Undef]),
   JsonFile([KBOne EXCEPT !.intents_and_answers = Undef]),
   JsonFile([KBOne EXCEPT !.learning_and_review_workflow = Undef]),
   JsonFile([KBTwo EXCEPT !.intents_and_answers = Section])}

\* What the file system gives server.js and the network gives a worker
FilesOf(v) == IF v = "express" THEN KBFiles \ {NotOk} ELSE KBFiles

LoadMessages == {Str(<<"a", " ", "b">>), Str(<<"z">>), Undef}
LoadOutcomes == {NetworkError, TextOutcome(<<"{ok}">>)}

TickMs == CACHE_TTL_MS \div 2
MaxTicks == 3

LoadRecord(status, by) ==
  [status |-> status, by |-> by, heldBefore |-> <<KB>>, timeBefore |-> KB_CACHE_TIME]

\* server.js has loaded its KB when it starts to listen (a failing load ends the
\* process); a worker starts with an empty cache.
InitKB ==
  /\ variant \in Variants
  /\ apiKey \in (IF variant = "worker" THEN {FALSE} ELSE BOOLEAN)
  /\ KB \in (IF variant = "express"
             THEN {loadKB(variant, f).kb : f \in {g \in FilesOf(variant) : ~loadKB(variant, g).threw}}
             ELSE {Null})
  /\ Idle

\* POST /api/reload-kb by the admin
ReloadKB(file) ==
  /\ variant = "express"
  /\ file \in FilesOf(variant)
  /\ \E r \in {loadKB(variant, file)} :
       /\ KB' = IF r.threw THEN KB ELSE r.kb
       /\ lastLoad' = LoadRecord(IF r.threw THEN "failed" ELSE "ok", "reload")
  /\ UNCHANGED <<variant, apiKey, probe, now, KB_CACHE_TIME>>
  /\ UNCHANGED requestVars

\* The request whose load of the KB failed: handleChat rejects before it reads the body
LoadRaised ==
  /\ pc' = "done"
  /\ out' = Raised
  /\ message' = Undef
  /\ modelOutcome' = NoOutcome
  /\ locals' = InitLocals
  /\ trace' = <<>>
  /\ kbReads' = <<>>

\* A worker's handleChat: the KB from the cache while it is fresh, else fetched,
\* checked and cached; then the request is handled with it.
WorkerChat(file, m) ==
  /\ variant # "express"
  /\ file \in FilesOf(variant)
  /\ pc \in {"idle", "done"}
  /\ IF KB # Null /\ now - KB_CACHE_TIME < CACHE_TTL_MS
     THEN /\ lastLoad' = LoadRecord("cached", "chat")
          /\ UNCHANGED <<KB, KB_CACHE_TIME>>
          /\ Handle(m, KB)
     ELSE \E r \in {loadKB(variant, file)} :
            IF r.threw
            THEN /\ lastLoad' = LoadRecord("failed", "chat")
                 /\ UNCHANGED <<KB, KB_CACHE_TIME>>
                 /\ LoadRaised
            ELSE /\ lastLoad' = LoadRecord("ok", "chat")
                 /\ KB' = r.kb
                 /\ KB_CACHE_TIME' = now
                 /\ Handle(m, r.kb)
  /\ UNCHANGED <<variant, apiKey, probe, now>>

\* Time passes
Tick ==
  /\ now < MaxTicks * TickMs
  /\ now' = now + TickMs
  /\ UNCHANGED <<variant, apiKey, KB, probe, KB_CACHE_TIME, lastLoad>>
  /\ UNCHANGED requestVars

ExpressChat(m) == variant = "express" /\ ChatRequest(m)

NextKB ==
  \/ \E m \in LoadMessages : ExpressChat(m)
  \/ \E file \in KBFiles, m \in LoadMessages : WorkerChat(file, m)
  \/ \E file \in KBFiles : ReloadKB(file)
  \/ \E o \in LoadOutcomes : ModelSettles(o)
  \/ Tick

SpecKB == InitKB /\ [][NextKB]_vars

\* ---------------------------------------------------------------------
\* resolveRouteUrl on its own, over link tables with one package entry
\* ---------------------------------------------------------------------
UrlEvent == <<"https", ":", "/", "/", "squareup.com", "/", "event">>

LinkEntries ==
  {Str(UrlBooking), Str(<<>>), Null, Num(5),
   Map(<<>>),
   Map(<<KV(<<"on_location">>, Str(UrlOnLocation)), KV(<<"studio">>, Str(UrlStudio))>>),
   Map(<<KV(<<"on_location">>, Str(UrlOnLocation)), KV(<<"event">>, Str(UrlEvent))>>),
   Map(<<KV(<<"studio">>, Str(<<>>)), KV(<<"on_location">>, Str(UrlOnLocation))>>),
   Map(<<KV(<<"studio">>, Null), KV(<<"notes">>, Num(1)), KV(<<"event">>, Str(UrlEvent))>>),
   Map(<<KV(<<"notes">>, Num(1))>>),
   Map(<<KV(<<"notes">>, Str(<<>>)), KV(<<"event">>, Str(UrlEvent))>>)}

RouteKBs ==
  {KnowledgeBase(Business, Map(<<KV(<<"pkg">>, entry)>>), Arr(<<>>)) : entry \in LinkEntries}
    \cup {KnowledgeBase(Business, Map(<<>>), Arr(<<>>)), KnowledgeBase(Business, Null, Arr(<<>>))}

Routes ==
  {Route("square_package", Undef, id, mode) :
     id \in {Str(<<"pkg">>), Str(<<"gone">>), Str(<<"constructor">>), Undef},
     mode \in {Undef, Str(<<"studio">>), Str(<<"on_location">>), Str(<<"event">>),
               Str(<<"constructor">>)}}
    \cup {Route("url", Str(UrlBooking), Undef, Undef), Route("url", Undef, Str(<<"pkg">>), Undef),
          Route("url", Str(<<>>), Undef, Undef), Route("url", Num(5), Undef, Undef),
          Route("url", Arr(<<>>), Undef, Undef), Route("url", Bool(TRUE), Undef, Undef),
          Route("page", Str(UrlBooking), Undef, Undef), Null, Undef, Str(UrlBooking),
          Num(5), Arr(<<>>)}

InitRoute ==
  /\ variant = "express"
  /\ apiKey = FALSE
  /\ KB \in RouteKBs
  /\ Idle

ResolveRoute(route) ==
  /\ probe' = [message |-> Undef, route |-> route, found |-> resolveRouteUrl(route, KB)]
  /\ UNCHANGED <<variant, apiKey, KB>>
  /\ UNCHANGED requestVars
  /\ UNCHANGED loadVars

NextRoute == \E route \in Routes : ResolveRoute(route)

SpecRoute == InitRoute /\ [][NextRoute]_vars

\* ---------------------------------------------------------------------
\* The address scrub on its own, applied repeatedly to one reply text
\* ---------------------------------------------------------------------
\* Reply texts are built from the pieces of the two address patterns
MaxTokens == 4
MaxPasses == 2

ReplyTokens ==
  {<<"1", "0", "9">>, <<"7">>, <<" ">>, <<",">>,
   <<"A", "b", "b", "e", "y">>, <<"R", "d">>, <<"r", "O", "A", "d">>,
   <<"1", "2", " ", "a", "b", "b", "e", "y", "\n", "R", "o", "a", "d">>}

RECURSIVE TextsOf(_)
TextsOf(n) ==
  IF n = 0 THEN {<<>>}
  ELSE TextsOf(n - 1) \cup {t \o token : t \in TextsOf(n - 1), token \in ReplyTokens}

ReplyTexts == TextsOf(MaxTokens)

Scrubbing(text, found, passes) ==
  [message |-> Undef, text |-> text, found |-> found, passes |-> passes]

InitScrub ==
  /\ variant = "express"
  /\ apiKey = FALSE
  /\ KB = KBOne
  /\ pc = "idle"
  /\ message = Undef
  /\ locals = InitLocals
  /\ modelOutcome = NoOutcome
  /\ out = NoBody
  /\ trace = <<>>
  /\ kbReads = <<>>
  /\ now = 0
  /\ KB_CACHE_TIME = 0
  /\ lastLoad = NoLoad
  /\ probe \in {Scrubbing(text, text, 0) : text \in ReplyTexts}

ScrubReply ==
  /\ probe.passes < MaxPasses
  /\ probe' = Scrubbing(probe.text, scrubAddress(probe.found), probe.passes + 1)
  /\ UNCHANGED <<variant, apiKey, KB>>
  /\ UNCHANGED requestVars
  /\ UNCHANGED loadVars

NextScrub == ScrubReply

SpecScrub == InitScrub /\ [][NextScrub]_vars

\* ---------------------------------------------------------------------
\* Properties
\* ---------------------------------------------------------------------
Passed(step) == \E i \in 1..Len(trace) : trace[i] = step
Times(step) == Cardinality({i \in 1..Len(trace) : trace[i] = step})

Answered == pc = "done" /\ out.kind = "200"
ModelConfigured == variant # "worker" /\ apiKey
ModelFailed == Passed("MODEL_FAILURE")
ModelSucceeded == Passed("MODEL_SUCCESS")

NonEmptyText(x) == x.t = "string" /\ x.v # <<>>

\* C1: every answered chat request returns a reply that is non-empty text, on the
\* model path as on the heuristic path.
C1_ReplyNeverEmpty == Answered => NonEmptyText(out.reply)

\* What the handler returns for the message and the KB when no model is
\* configured: the heuristic path alone.
HeuristicAlone == Complete(variant, InitLocals, message, KB, <<"START">>).out

\* C2: when a model is configured and its single attempt fails, the caller gets
\* used_openai = false and, field for field, the body the heuristic path alone
\* gives for the same message and KB; the failure itself is not surfaced.
C2_FailureFallsBackToHeuristic ==
  (pc = "done" /\ ModelConfigured /\ ModelFailed) =>
    /\ out = HeuristicAlone
    /\ out.kind = "200" => out.used_openai = Bool(FALSE)

\* C2 witness: a model output that does not parse, answered from a matched intent.
C2_Witness ==
  /\ Answered /\ ModelFailed
  /\ modelOutcome.kind = "text"
  /\ out.escalated = Bool(FALSE)
  /\ out.matched_intent_id # Null

\* C3: a request passes START, then MODEL_ATTEMPT exactly when a model key is
\* configured and at most once, then MODEL_SUCCESS or MODEL_FAILURE; the heuristic
\* path runs exactly when no model is configured or the attempt failed; after a
\* model success used_openai is true and the heuristic path has not run.
C3_OrchestratorStates ==
  (pc = "done" /\ ~InvalidMessage(message)) =>
    /\ trace[1] = "START"
    /\ Times("MODEL_ATTEMPT") = (IF ModelConfigured THEN 1 ELSE 0)
    /\ ModelConfigured =>
         /\ trace[2] = "MODEL_ATTEMPT"
         /\ trace[3] \in {"MODEL_SUCCESS", "MODEL_FAILURE"}
    /\ Times("HEURISTIC_ATTEMPT") = (IF ~ModelConfigured \/ ModelFailed THEN 1 ELSE 0)
    /\ Passed("HEURISTIC_ATTEMPT") => trace[Len(trace) - 1] = "HEURISTIC_ATTEMPT"
    /\ ModelSucceeded =>
         /\ ~Passed("HEURISTIC_ATTEMPT")
         /\ trace = <<"START", "MODEL_ATTEMPT", "MODEL_SUCCESS", "RESULT">>
         /\ out.used_openai = Bool(TRUE)

\* C3 witness: a failed attempt followed by the heuristic path and a result.
C3_Witness ==
  /\ pc = "done"
  /\ trace = <<"START", "MODEL_ATTEMPT", "MODEL_FAILURE", "HEURISTIC_ATTEMPT", "RESULT">>

\* C4: every request with a non-empty text message ends with a 200 body, whatever
\* the intents of the validated KB contain and whatever the model does; only a
\* missing or non-text message is an error the caller sees.
C4_AlwaysProducesResult ==
  pc = "done" => out.kind = (IF InvalidMessage(message) THEN "400" ELSE "200")

FieldHasAddress(x) ==
  CASE x.t = "string" -> ContainsAddress(x.v)
    [] x.t = "array" -> \E i \in 1..Len(x.v) : x.v[i].t = "string" /\ ContainsAddress(x.v[i].v)
    [] OTHER -> FALSE

\* C5: in every deployment variant the reply of an answered request has no match
\* of the street-address patterns, whether it came from the model, from a KB
\* answer or from the escalation template.
C5_ReplyAlwaysRedacted == Answered => ~FieldHasAddress(out.reply)

\* C6: no field of the body server.js returns (reply, followups, route_url,
\* links_shared, kb_evidence) has a match of the street-address patterns, also
\* when the model output carries the address outside reply.
C6_NoFieldRevealsAddress ==
  (Answered /\ variant = "express") =>
    /\ ~FieldHasAddress(out.reply)
    /\ ~FieldHasAddress(out.followups)
    /\ ~FieldHasAddress(out.route_url)
    /\ ~FieldHasAddress(out.links_shared)
    /\ ~FieldHasAddress(out.kb_evidence)

\* The intent the selector reports for the request, and whether its formatted
\* reply is usable (non-empty).
Selected == findBestIntent(message, KB)
UsableAnswer ==
  /\ Truthy(Selected.intent)
  /\ formatIntentAnswer(Selected.intent, KB).reply.v # <<>>

HeuristicAnswered == Answered /\ Passed("HEURISTIC_ATTEMPT")

\* C7: on the heuristic path, when no intent reaches the threshold or the matched
\* intent formats to an empty reply, the body is the escalation message with no
\* follow-ups, no route URL and escalated = true; when an intent is matched with a
\* non-empty reply, escalated = false.
C7_EscalationOnNoUsableAnswer ==
  HeuristicAnswered =>
    IF UsableAnswer
    THEN out.escalated = Bool(FALSE)
    ELSE /\ out.reply = Str(buildEscalationReply(KB))
         /\ out.followups = Arr(<<>>)
         /\ out.route_url = Null
         /\ out.escalated = Bool(TRUE)

\* C8: in every heuristic result escalated = true implies that no matched intent
\* id is reported.
C8_EscalatedHasNoMatchedIntent ==
  (HeuristicAnswered /\ out.escalated = Bool(TRUE)) => out.matched_intent_id = Null

\* The scores of the KB's intents for the probed message, in KB order
ProbedIntents == KB.intents_and_answers.v
ProbedScore(i) == scoreIntent(probe.message, ProbedIntents[i]).score
ProbedMax ==
  IF ProbedIntents = <<>> THEN 0
  ELSE CHOOSE s \in {ProbedScore(i) : i \in 1..Len(ProbedIntents)} :
         \A i \in 1..Len(ProbedIntents) : ProbedScore(i) <= s
ProbedFirstMax ==
  CHOOSE i \in 1..Len(ProbedIntents) :
    ProbedScore(i) = ProbedMax /\ \A j \in 1..(i - 1) : ProbedScore(j) < ProbedMax
Probed == probe # NoProbe /\ ~probe.found.threw

\* C9: findBestIntent returns the maximum score over all intents; when that score
\* is at least 2 it returns the earliest intent in KB order that has it, and when
\* it is below 2 (exactly 1 included) it returns no intent.
C9_SelectsFirstBestAboveThreshold ==
  Probed =>
    /\ probe.found.score = ProbedMax
    /\ probe.found.intent = (IF ProbedMax >= 2 THEN ProbedIntents[ProbedFirstMax] ELSE Null)

\* C9 witness: two different intents tie at the maximum, which is at least 2, and
\* the earlier one is returned.
C9_Witness ==
  /\ Probed
  /\ Len(ProbedIntents) = 2
  /\ ProbedIntents[1] # ProbedIntents[2]
  /\ ProbedScore(1) = ProbedScore(2)
  /\ ProbedScore(1) >= 2
  /\ probe.found.intent = ProbedIntents[1]

\* C9 witness of the boundary below the threshold: a best score of exactly 1
C9_ScoreOneIsNoMatch == Probed /\ ProbedMax = 1 /\ probe.found.intent = Null

\* The model output, fences stripped, is a JSON object
WellFormedOutput(text) ==
  /\ JsonParses(StripFences(text))
  /\ JsonParse(StripFences(text)).t = "object"

\* C10: a model output that is not well-formed structured data of the expected
\* shape (unparseable text, or JSON that is no object) fails the model path: the
\* request falls back to the heuristic path and is never answered from the model
\* path.
C10_MalformedOutputFallsBack ==
  (pc = "done" /\ modelOutcome.kind = "text" /\ ~WellFormedOutput(modelOutcome.text)) =>
    /\ ModelFailed
    /\ Passed("HEURISTIC_ATTEMPT")
    /\ out.kind = "200" => out.used_openai = Bool(FALSE)

\* The object a probed model output parses to, and the validator's result for it
ParsedObject == JsonParse(StripFences(probe.message.v))
ParsedAnObject ==
  /\ probe # NoProbe
  /\ JsonParses(StripFences(probe.message.v))
  /\ ParsedObject.t = "object"

\* A field of the expected type is passed through, any other value gets the default
DefaultUnless(x, type, default) == IF x.t = type THEN x ELSE default

\* C11: for every model output that parses to an object, parseModelResponse returns
\* all seven fields, each defaulted on its own: a missing intent_id is null and a
\* text one is passed through; confidence that is no number is 0; reply that is no
\* text is the empty text; followups, links_shared and kb_evidence that are no
\* arrays are empty arrays; escalated that is no boolean is false; a field of the
\* right type is unchanged.
C11_FieldsDefaultedIndependently ==
  ParsedAnObject =>
    /\ ~probe.found.threw
    /\ ParsedObject.v.intent_id.t \in {"undefined", "null"} => probe.found.value.intent_id = Null
    /\ ParsedObject.v.intent_id.t = "string" /\ ParsedObject.v.intent_id.v # <<>> =>
         probe.found.value.intent_id = ParsedObject.v.intent_id
    /\ probe.found.value.confidence = DefaultUnless(ParsedObject.v.confidence, "number", Num(0))
    /\ probe.found.value.reply = DefaultUnless(ParsedObject.v.reply, "string", Str(<<>>))
    /\ probe.found.value.followups = DefaultUnless(ParsedObject.v.followups, "array", Arr(<<>>))
    /\ probe.found.value.links_shared = DefaultUnless(ParsedObject.v.links_shared, "array", Arr(<<>>))
    /\ probe.found.value.escalated = DefaultUnless(ParsedObject.v.escalated, "boolean", Bool(FALSE))
    /\ probe.found.value.kb_evidence = DefaultUnless(ParsedObject.v.kb_evidence, "array", Arr(<<>>))

\* C12: in every 200 body match_score is a non-negative integer when the model was
\* not used and a number from 0 to 1 when it was, whatever confidence the model
\* output carries.
C12_MatchScoreInRange ==
  Answered =>
    /\ out.match_score.t = "number"
    /\ out.match_score.v >= 0
    /\ out.used_openai = Bool(TRUE) => out.match_score.v <= 1

\* A direct call of scoreIntent that returned, and one of findBestIntent
Scored == probe # NoProbe /\ "intent" \in DOMAIN probe /\ ~probe.found.threw
Selecting == probe # NoProbe /\ "intent" \notin DOMAIN probe /\ ~probe.found.threw

WardrobeScored == Scored /\ probe.message = WardrobeMessage /\ probe.intent = WardrobeIntent
WardrobeSelecting ==
  /\ Selecting
  /\ probe.message = WardrobeMessage
  /\ KB.intents_and_answers = Arr(<<WardrobeIntent>>)

C14_SingleSnapshotPerRequest ==
  pc = "done" => \A i, j \in 1..Len(kbReads) : kbReads[i] = kbReads[j]

\* The sections a usable KB has: business info, link table, intents, policies
\* and guardrails
RequiredSections ==
  {"business", "square_booking_links", "intents_and_answers", "booking_policies",
   "bot_guardrails"}
HasSections(kb) == \A k \in RequiredSections : kb[k] # Undef

\* C15: after any sequence of startup loads, admin reloads and cache refreshes the
\* KB held (the global KB of server.js, a worker's KB_CACHE once filled) has every
\* required section; a load that failed left the KB held and KB_CACHE_TIME as they
\* were and, in a worker, ended the request with an error; and every answered chat
\* read only KBs that have every required section.
C15_HeldKBIsComplete ==
  /\ KB # Null => HasSections(KB)
  /\ lastLoad.status = "failed" =>
       /\ KB = lastLoad.heldBefore[1]
       /\ KB_CACHE_TIME = lastLoad.timeBefore
       /\ lastLoad.by = "chat" => out = Raised
  /\ Answered => \A i \in 1..Len(kbReads) : HasSections(kbReads[i])

\* C15 witness: a worker whose cache had expired failed to refresh it; the cache
\* still holds the KB loaded before and the request ended with an error.
C15_Witness ==
  /\ variant = "worker"
  /\ lastLoad.status = "failed"
  /\ KB # Null
  /\ KB_CACHE_TIME + CACHE_TTL_MS <= now
  /\ out = Raised

\* An admin reload of server.js failed and a chat was then answered from the KB
\* loaded before it
C15_AnsweredAfterFailedReload ==
  /\ variant = "express"
  /\ lastLoad.status = "failed"
  /\ Answered

\* The records of one log file among those the request has appended
Appended(file) == {i \in 1..Len(locals.appended) : locals.appended[i].file = file}

\* C16: in the Express host every request that returns a 200 body has appended
\* exactly one transcript record, as its last record, and exactly one FAQ-candidate
\* record if the returned escalated flag is true and none if it is false, whichever
\* path set the flag; so the candidate record precedes the transcript record.
C16_TranscriptAndCandidateRecords ==
  (Answered /\ variant = "express") =>
    /\ Cardinality(Appended("transcripts")) = 1
    /\ locals.appended[Len(locals.appended)].file = "transcripts"
    /\ Cardinality(Appended("NEW_FAQ_CANDIDATES")) = (IF out.escalated = Bool(TRUE) THEN 1 ELSE 0)
    /\ Len(locals.appended) = Cardinality(Appended("transcripts")) + Cardinality(Appended("NEW_FAQ_CANDIDATES"))

\* C16 witness: a matched intent with an empty answer escalated on the heuristic
\* path, after a failed model attempt: candidate record, then transcript record.
C16_Witness ==
  /\ Answered /\ variant = "express" /\ ModelFailed
  /\ out.escalated = Bool(TRUE)
  /\ out.matched_intent_id # Null
  /\ Len(locals.appended) = 2
  /\ locals.appended[1] = FaqCandidate("Matched intent but empty answer (heuristic)")
  /\ locals.appended[2].file = "transcripts"

\* The URLs that occur in the KB: the route URL of an intent, a bare link-table
\* entry, a value of a mode-keyed link-table entry
KBRouteUrls(kb) ==
  {kb.intents_and_answers.v[i].v.route.v.url :
     i \in {j \in 1..Len(kb.intents_and_answers.v) :
              /\ kb.intents_and_answers.v[j].t = "object"
              /\ kb.intents_and_answers.v[j].v.route.t = "object"}}
KBLinkUrls(kb) ==
  LET entries == ObjectValues(kb.square_booking_links)
  IN {entries[i] : i \in 1..Len(entries)}
       \cup UNION {{ObjectValues(entries[i])[j] : j \in 1..Len(ObjectValues(entries[i]))} :
                    i \in 1..Len(entries)}

\* C17: in every 200 body the route URL is absent or a URL that occurs in the KB,
\* also on the model path, where it is the first element of the model's
\* links_shared.
C17_RouteUrlGroundedInKB ==
  Answered =>
    \/ out.route_url \in {Null, Undef}
    \/ out.route_url \in KBRouteUrls(KB) \cup KBLinkUrls(KB)

\* The triggers of the probed intent, as scoreIntent iterates them
ProbedTriggers == Iterate(OrElse(IntentTriggers(probe.intent), Arr(<<>>))).items

\* ceil(0.7 x n): the least integer k with 10 k >= 7 n
CeilSevenTenths(n) == CHOOSE k \in 0..n : 10 * k >= 7 * n /\ 10 * (k - 1) < 7 * n

\* The contribution of a literal trigger as the scoring rule states it
LiteralContribution(m, t) ==
  LET msg == norm(m)
      trig == norm(t)
      words == SplitWords(trig, <<>>)
      present == {i \in 1..Len(words) : Includes(msg, words[i])}
  IN IF trig = <<>> THEN 0
     ELSE (IF Includes(msg, trig) THEN 2 ELSE 0)
          + (IF Len(words) >= 2 /\ Cardinality(present) >= CeilSevenTenths(Len(words))
             THEN 1 ELSE 0)

\* A trigger is a pattern as the rule states it: text that starts with "/" and
\* has another "/" later; its pattern lies between the first and the last "/" and
\* its flags after the last.
IsPattern(t) ==
  t.t = "string" /\ t.v # <<>> /\ t.v[1] = "/" /\ \E j \in 2..Len(t.v) : t.v[j] = "/"
ClosingSlash(t) == CHOOSE j \in 2..Len(t.v) : t.v[j] = "/" /\ \A k \in (j + 1)..Len(t.v) : t.v[k] # "/"
PatternContribution(m, t) ==
  LET r == [pattern |-> SubSeq(t.v, 2, ClosingSlash(t) - 1),
            flags |-> SubSeq(t.v, ClosingSlash(t) + 1, Len(t.v))]
  IN IF PatternCompiles(r.pattern, r.flags) /\ RegexTest(r, m.v) THEN 3 ELSE 0

RECURSIVE SumOfContributions(_, _)
SumOfContributions(m, ts) ==
  IF ts = <<>> THEN 0
  ELSE (IF IsPattern(Head(ts)) THEN PatternContribution(m, Head(ts))
        ELSE LiteralContribution(m, Head(ts)))
       + SumOfContributions(m, Tail(ts))

\* C18: scoreIntent is the exact sum over the intent's triggers of the per-trigger
\* contributions; a literal trigger contributes 2 if the normalized message
\* contains the normalized trigger, plus 1 if it has two or more words of which at
\* least ceil(0.7 x word count) occur in the normalized message, and 0 if the
\* normalized trigger is empty; every contribution is an integer from 0 to 3.
C18_ScoreIsSumOfContributions ==
  Scored =>
    /\ probe.found.score = SumOfContributions(probe.message, ProbedTriggers)
    /\ \A i \in 1..Len(ProbedTriggers) :
         TriggerContribution(probe.message, ProbedTriggers[i]) \in 0..3

\* C18 witness: two literal triggers, one worth 3 (substring and bonus) and one
\* worth 1 (bonus alone), add up to 4.
C18_Witness ==
  /\ Scored
  /\ Len(ProbedTriggers) = 2
  /\ LiteralContribution(probe.message, ProbedTriggers[1]) = 3
  /\ LiteralContribution(probe.message, ProbedTriggers[2]) = 1
  /\ probe.found.score = 4

\* The intent without its i-th trigger
WithoutTrigger(intent, i) ==
  Obj([intent.v EXCEPT !.triggers =
         Arr([j \in 1..(Len(intent.v.triggers.v) - 1) |->
                IF j < i THEN intent.v.triggers.v[j] ELSE intent.v.triggers.v[j + 1]])])

\* C19: a text trigger is scored as a pattern exactly when it starts with "/" and
\* has another "/" later, and as literal text otherwise ("/" and "/a" are
\* literal); a pattern contributes 3 when it compiles and matches the raw message
\* and 0 otherwise; a pattern that does not compile raises nothing and the
\* other triggers score as they do without it.
C19_PatternTriggers ==
  (probe # NoProbe /\ "intent" \in DOMAIN probe /\ IntentTriggers(probe.intent).t = "array") =>
    /\ ~probe.found.threw
    /\ \A i \in 1..Len(ProbedTriggers) :
         /\ ProbedTriggers[i].t = "string" =>
              TriggerContribution(probe.message, ProbedTriggers[i]) =
                (IF IsPattern(ProbedTriggers[i])
                 THEN PatternContribution(probe.message, ProbedTriggers[i])
                 ELSE LiteralContribution(probe.message, ProbedTriggers[i]))
         /\ IsPattern(ProbedTriggers[i]) =>
              probe.found.score =
                PatternContribution(probe.message, ProbedTriggers[i])
                  + scoreIntent(probe.message, WithoutTrigger(probe.intent, i)).score

\* C19 witness: a pattern that does not compile, followed by a literal trigger
\* that matches; the score is the literal trigger's 2.
C19_Witness ==
  /\ Scored
  /\ Len(ProbedTriggers) = 2
  /\ ProbedTriggers[1] = Str(<<"/", "(", "/">>)
  /\ LiteralContribution(probe.message, ProbedTriggers[2]) = 2
  /\ probe.found.score = 2

\* A pattern matched the raw message where the normalized message would not match
C19_RawMessageMatched ==
  /\ Scored
  /\ ProbedTriggers = <<Str(<<"/", "A", "/", "i">>)>>
  /\ probe.message = Str(<<"A">>)
  /\ probe.found.score = 3

\* A direct call of resolveRouteUrl on a package route
PackageRouted ==
  /\ probe # NoProbe
  /\ "route" \in DOMAIN probe
  /\ probe.route.t = "object"
  /\ probe.route.v.type = Str(<<"square_package">>)
  /\ probe.route.v.package_id.t = "string"

\* The own keys and values of a mapping; the link-table entry of the probed route
HasOwn(o, key) == o.t = "map" /\ \E i \in 1..Len(o.v) : o.v[i].k = key
Own(o, key) == o.v[CHOOSE i \in 1..Len(o.v) : o.v[i].k = key].val
RoutedEntry == Own(KB.square_booking_links, probe.route.v.package_id.v)
RequestedMode ==
  IF probe.route.v.mode.t = "string" THEN probe.route.v.mode.v ELSE <<"studio">>
StringValued(o) == {i \in 1..Len(o.v) : o.v[i].val.t = "string"}
FirstStringValued(o) == o.v[CHOOSE i \in StringValued(o) : \A j \in StringValued(o) : i <= j].val

\* C20: for a package route resolveRouteUrl returns null when the package id is
\* not in the link table; the entry itself when the entry is a bare string,
\* whatever the mode; for a mapping the value under the requested mode ("studio"
\* when the route has no mode) when that key is present, else the first
\* enumerated string-valued entry of the mapping, or null if there is none.
C20_PackageRouteResolution ==
  PackageRouted =>
    IF ~HasOwn(KB.square_booking_links, probe.route.v.package_id.v)
    THEN probe.found = Null
    ELSE /\ RoutedEntry.t = "string" => probe.found = RoutedEntry
         /\ RoutedEntry.t = "map" =>
              probe.found =
                (IF HasOwn(RoutedEntry, RequestedMode) THEN Own(RoutedEntry, RequestedMode)
                 ELSE IF StringValued(RoutedEntry) # {} THEN FirstStringValued(RoutedEntry)
                 ELSE Null)

\* A direct call of resolveRouteUrl
RouteResolved == probe # NoProbe /\ "route" \in DOMAIN probe

\* C21: for every route value and every link table resolveRouteUrl returns
\* either null or a non-empty text, whatever is malformed in the route or in
\* the link table.
C21_RouteUrlAbsentOrText ==
  RouteResolved =>
    \/ probe.found = Null
    \/ probe.found.t = "string" /\ probe.found.v # <<>>

\* C22: the address scrub is idempotent: a reply text that went through the two
\* replacements has no match of either address pattern, and putting it
\* through them again leaves it as it was after the first time.
C22_ScrubIdempotent ==
  /\ probe.passes >= 1 => ~ContainsAddress(probe.found)
  /\ probe.passes >= 2 => probe.found = scrubAddress(probe.text)

\* a text with a match of each pattern has been scrubbed twice
C22_Witness ==
  /\ probe.passes = 2
  /\ \E i \in 1..Len(probe.text) : StudioAddressEndAt(probe.text, i) > 0
  /\ \E i \in 1..Len(probe.text) :
       AnyNumberAddressEndAt(ReplaceStudioAddress(probe.text, 1), i) > 0

====
